---- MODULE Spec2Model ----
(***************************************************************************)
(* DownstreamRequest of package pipelines (src/pipelines/pipelines.go):    *)
(* a request object carrying one zero-size response channel, written to    *)
(* by Respond, read through Response(), and shut down by Close().          *)
(*                                                                         *)
(* Each goroutine of the model performs one call on one request:           *)
(*   a responder performs r.Respond(response, cancel)                      *)
(*   a receiver  performs ch := r.Response(); v, ok := <-ch                *)
(*   a closer    performs r.Close()                                        *)
(* Every read or write of the shared field r.responseChan is its own step, *)
(* because Respond and Response read the field without holding the mutex   *)
(* that Close holds while writing it.                                      *)
(***************************************************************************)
EXTENDS Integers, Sequences, FiniteSets, TLC

\* ---- bounds of the model ----
NumRequests == 2
NumGoroutines == 4

Requests == 1..NumRequests
Goroutines == 1..NumGoroutines

\* constructor arguments the requests are built from
UpstreamNames == {"ingest"}
DownstreamNames == {"store"}
DataValues == {"id=x"}

\* ---- values ----
NIL == 0            \* the nil channel
NoReq == 0          \* a goroutine that has not been handed a request yet
NoHolder == 0       \* unlocked sync.Mutex
NoVal == 0          \* receiver has received nothing yet
ClosedVal == -1     \* receive on a closed channel: zero value, ok = false
NoPanic == "none"
SendOnClosed == "send on closed channel"

NilErr == <<"nil">>
ErrWasClosed(name) == <<"request from pipeline %s was closed", name>>
ErrIsClosed(name) == <<"request from pipeline %s is closed", name>>
ErrCancelled == <<"response is canclled">>

\* make(chan *UpstreamResponse, 0)
ChanCapBuffered == 0 + 1
ChanCap == 0

\* every make() yields a channel of its own; id is the identity of the allocation
NewChanShared(id) == 1
NewChan(id) == id

NewDownstreamRequest(id, upstreamPipelineName, downstreamPipelineName, data) ==
    [upstreamPipelineName   |-> upstreamPipelineName,
     downstreamPipelineName |-> downstreamPipelineName,
     data                   |-> data,
     responseChanLock       |-> NoHolder,
     responseChan           |-> NewChan(id)]

UpstreamPipelineName(rq) == rq.upstreamPipelineName
DownstreamPipelineName(rq) == rq.downstreamPipelineName
Data(rq) == rq.data
Response(rq) == rq.responseChan

\* if r.responseChan == nil
IsNilNever(ch) == FALSE
IsNil(ch) == ch = NIL

\* the deferred recover() of Respond: e is the recovered panic, err the
\* named result at the time the closure unwinds
DeferredSwallow(e, err, name) == err
Deferred(e, err, name) == IF e # NoPanic THEN ErrIsClosed(name) ELSE err

\* case <-cancel: ready once the cancel signal has fired
CancelReadyNever(fired) == FALSE
CancelReady(fired) == fired

\* r.responseChanLock.Lock() can proceed
LockFreeAlways(holder) == TRUE
LockFree(holder) == holder = NoHolder

\* close(ch) of the Go runtime: panics on a nil or already closed channel
ClosePanics(chs, ch) == ch = NIL \/ chs[ch].closed
CloseChanNoop(chs, ch) == chs
CloseChan(chs, ch) == [chs EXCEPT ![ch].closed = TRUE]

\* r.responseChan = nil
SetNilDropsData(rq) == [rq EXCEPT !.responseChan = NIL, !.data = "nil"]
SetNil(rq) == [rq EXCEPT !.responseChan = NIL]

VARIABLES
    req,        \* req[r]: the fields of DownstreamRequest r
    chans,      \* chans[ch]: runtime state of channel ch (closed flag, buffer)
    respond,    \* respond[s]: the Respond call of responder s
    cancel,     \* cancel[s]: the cancel signal of responder s has fired
    recv,       \* recv[x]: the Response()/receive of receiver x
    close,      \* close[c]: the Close call of closer c
    fault       \* the program was aborted by an unrecovered panic

vars == <<req, chans, respond, cancel, recv, close, fault>>

\* goroutine g has not made its call yet
Idle(g) == respond[g].pc = "idle" /\ recv[g].pc = "idle" /\ close[g].pc = "idle"

\* Goroutines are interchangeable, so they make their calls in the order of
\* their numbers
MayStart(g) == Idle(g) /\ \A h \in Goroutines : h < g => ~Idle(h)

\* some Close() call on request r has returned
CloseReturned(r) == \E c \in Goroutines : close[c].pc = "done" /\ close[c].r = r

Init ==
    /\ \E args \in [Requests -> UpstreamNames \X DownstreamNames \X DataValues] :
           req = [r \in Requests |->
                    NewDownstreamRequest(r, args[r][1], args[r][2], args[r][3])]
    /\ chans = [ch \in {NewChan(r) : r \in Requests} |-> [closed |-> FALSE, buf |-> <<>>]]
    /\ respond = [s \in Goroutines |->
                    [pc |-> "idle", r |-> NoReq, ch |-> NIL, err |-> NilErr, afterClose |-> FALSE]]
    /\ cancel = [s \in Goroutines |-> FALSE]
    /\ recv = [x \in Goroutines |-> [pc |-> "idle", r |-> NoReq, ch |-> NIL, val |-> NoVal]]
    /\ close = [c \in Goroutines |-> [pc |-> "idle", r |-> NoReq, did |-> FALSE]]
    /\ fault = FALSE

\* ---- Respond(response, cancel), lines 94-118 ----
\* The response passed by responder s is identified with s itself.

\* call + line 95: the unlocked nil check of r.responseChan; fired tells
\* whether the caller's cancel signal has fired before the call
RespondCall(s, r, fired) ==
    /\ ~fault
    /\ MayStart(s)
    /\ respond' = [respond EXCEPT ![s] =
          IF IsNil(req[r].responseChan)
          THEN [pc |-> "done", r |-> r, ch |-> NIL,
                err |-> ErrWasClosed(req[r].downstreamPipelineName),
                afterClose |-> CloseReturned(r)]
          ELSE [pc |-> "eval", r |-> r, ch |-> NIL, err |-> NilErr,
                afterClose |-> CloseReturned(r)]]
    /\ cancel' = [cancel EXCEPT ![s] = fired]
    /\ UNCHANGED <<req, chans, recv, close, fault>>

\* line 110: entering the select evaluates the channel operand, a second
\* unlocked read of r.responseChan
RespondEvalChan(s) ==
    /\ ~fault
    /\ respond[s].pc = "eval"
    /\ respond' = [respond EXCEPT ![s].pc = "select",
                                  ![s].ch = req[respond[s].r].responseChan]
    /\ UNCHANGED <<req, chans, cancel, recv, close, fault>>

\* line 110, send case proceeding without a partner: on a closed channel the
\* send panics and the deferred recover turns the panic into the result; on
\* a channel with free buffer space the value is queued and err = nil.
\* A send on the nil channel is never ready.
RespondSendCase(s) ==
    /\ ~fault
    /\ respond[s].pc = "select"
    /\ respond[s].ch # NIL
    /\ \/ chans[respond[s].ch].closed
       \/ Len(chans[respond[s].ch].buf) < ChanCap
    /\ LET ch == respond[s].ch
           name == req[respond[s].r].downstreamPipelineName
       IN IF chans[ch].closed
          THEN /\ respond' = [respond EXCEPT ![s].pc = "done", ![s].ch = NIL,
                                ![s].err = Deferred(SendOnClosed, NilErr, name)]
               /\ chans' = chans
          ELSE /\ respond' = [respond EXCEPT ![s].pc = "done", ![s].ch = NIL,
                                ![s].err = Deferred(NoPanic, NilErr, name)]
               /\ chans' = [chans EXCEPT ![ch].buf = Append(@, s)]
    /\ UNCHANGED <<req, cancel, recv, close, fault>>

\* line 110 meeting a blocked receive on the same open channel: the value
\* passes from the sender to the receiver in one step (unbuffered rendezvous)
Handoff(s, x) ==
    /\ ~fault
    /\ respond[s].pc = "select"
    /\ recv[x].pc = "recv"
    /\ respond[s].ch # NIL
    /\ recv[x].ch = respond[s].ch
    /\ ~chans[respond[s].ch].closed
    /\ chans[respond[s].ch].buf = <<>>
    /\ respond' = [respond EXCEPT ![s].pc = "done", ![s].ch = NIL,
                      ![s].err = Deferred(NoPanic, NilErr,
                                          req[respond[s].r].downstreamPipelineName)]
    /\ recv' = [recv EXCEPT ![x].pc = "done", ![x].ch = NIL, ![x].val = s]
    /\ UNCHANGED <<req, chans, cancel, close, fault>>

\* lines 112-113: case <-cancel
RespondCancelCase(s) ==
    /\ ~fault
    /\ respond[s].pc = "select"
    /\ CancelReady(cancel[s])
    /\ respond' = [respond EXCEPT ![s].pc = "done", ![s].ch = NIL,
                      ![s].err = Deferred(NoPanic, ErrCancelled,
                                          req[respond[s].r].downstreamPipelineName)]
    /\ UNCHANGED <<req, chans, cancel, recv, close, fault>>

\* the caller of Respond closes its cancel channel; it stays fired
FireCancel(s) ==
    /\ ~fault
    /\ respond[s].pc \in {"eval", "select"}
    /\ ~cancel[s]
    /\ cancel' = [cancel EXCEPT ![s] = TRUE]
    /\ UNCHANGED <<req, chans, respond, recv, close, fault>>

\* ---- Response(), lines 120-122, and the receive on its result ----
ResponseCall(x, r) ==
    /\ ~fault
    /\ MayStart(x)
    /\ recv' = [recv EXCEPT ![x] = [pc |-> "recv", r |-> r, ch |-> Response(req[r]),
                                    val |-> NoVal]]
    /\ UNCHANGED <<req, chans, respond, cancel, close, fault>>

\* <-ch with no sender to meet: a queued value is taken first, a closed and
\* drained channel yields the zero value; a receive on nil is never ready
RecvNoSender(x) ==
    /\ ~fault
    /\ recv[x].pc = "recv"
    /\ recv[x].ch # NIL
    /\ \/ chans[recv[x].ch].buf # <<>>
       \/ chans[recv[x].ch].closed
    /\ LET ch == recv[x].ch
       IN IF chans[ch].buf # <<>>
          THEN /\ recv' = [recv EXCEPT ![x].pc = "done", ![x].ch = NIL,
                                      ![x].val = Head(chans[ch].buf)]
               /\ chans' = [chans EXCEPT ![ch].buf = Tail(@)]
          ELSE /\ recv' = [recv EXCEPT ![x].pc = "done", ![x].ch = NIL,
                                      ![x].val = ClosedVal]
               /\ chans' = chans
    /\ UNCHANGED <<req, respond, cancel, close, fault>>

\* ---- Close(), lines 124-132 ----
\* Only Close touches the mutex, so taking it is joined with the test made
\* under it, and releasing it with the last step made under it.

\* lines 125-128: Lock() and, under the lock, the test of r.responseChan;
\* with the field already nil the deferred Unlock() follows at once
CloseLock(c, r) ==
    /\ ~fault
    /\ MayStart(c)
    /\ LockFree(req[r].responseChanLock)
    /\ IF req[r].responseChan # NIL
       THEN /\ req' = [req EXCEPT ![r].responseChanLock = c]
            /\ close' = [close EXCEPT ![c] = [pc |-> "close", r |-> r, did |-> FALSE]]
       ELSE /\ req' = [req EXCEPT ![r].responseChanLock = NoHolder]
            /\ close' = [close EXCEPT ![c] = [pc |-> "done", r |-> r, did |-> FALSE]]
    /\ UNCHANGED <<chans, respond, cancel, recv, fault>>

\* line 129: close(r.responseChan); nothing recovers a panic raised here
CloseClose(c) ==
    /\ ~fault
    /\ close[c].pc = "close"
    /\ LET ch == req[close[c].r].responseChan
       IN IF ClosePanics(chans, ch)
          THEN /\ fault' = TRUE
               /\ UNCHANGED <<chans, close>>
          ELSE /\ chans' = CloseChan(chans, ch)
               /\ close' = [close EXCEPT ![c].pc = "setnil", ![c].did = TRUE]
               /\ fault' = fault
    /\ UNCHANGED <<req, respond, cancel, recv>>

\* line 130: r.responseChan = nil, then line 126: the deferred Unlock()
CloseSetNil(c) ==
    /\ ~fault
    /\ close[c].pc = "setnil"
    /\ req' = [req EXCEPT ![close[c].r] =
                 [SetNil(@) EXCEPT !.responseChanLock = NoHolder]]
    /\ close' = [close EXCEPT ![c].pc = "done"]
    /\ UNCHANGED <<chans, respond, cancel, recv, fault>>

Next ==
    \/ \E s \in Goroutines, r \in Requests, fired \in BOOLEAN : RespondCall(s, r, fired)
    \/ \E s \in Goroutines : RespondEvalChan(s)
    \/ \E s \in Goroutines : RespondSendCase(s)
    \/ \E s \in Goroutines, x \in Goroutines : Handoff(s, x)
    \/ \E s \in Goroutines : RespondCancelCase(s)
    \/ \E s \in Goroutines : FireCancel(s)
    \/ \E x \in Goroutines, r \in Requests : ResponseCall(x, r)
    \/ \E x \in Goroutines : RecvNoSender(x)
    \/ \E c \in Goroutines, r \in Requests : CloseLock(c, r)
    \/ \E c \in Goroutines : CloseClose(c)
    \/ \E c \in Goroutines : CloseSetNil(c)

Spec == Init /\ [][Next]_vars

\* the Go scheduler runs every goroutine that is able to take a step
FairSpec ==
    /\ Spec
    /\ \A s \in Goroutines :
          /\ WF_vars(RespondEvalChan(s))
          /\ WF_vars(RespondSendCase(s))
          /\ WF_vars(RespondCancelCase(s))
    /\ \A x \in Goroutines : WF_vars(RecvNoSender(x))
    /\ \A c \in Goroutines :
          /\ WF_vars(CloseClose(c))
          /\ WF_vars(CloseSetNil(c))

TypeOK ==
    /\ fault \in BOOLEAN
    /\ \A s \in Goroutines : respond[s].pc \in {"idle", "eval", "select", "done"}
    /\ \A x \in Goroutines : recv[x].pc \in {"idle", "recv", "done"}
    /\ \A c \in Goroutines : close[c].pc \in {"idle", "close", "setnil", "done"}

\* ---- what the claims speak about ----
\* the receivers that took the response passed by responder s
Received(s) == {x \in Goroutines : recv[x].pc = "done" /\ recv[x].val = s}

\* the receivers that took some response from request r's channel
Delivered(r) ==
    {x \in Goroutines : recv[x].pc = "done" /\ recv[x].r = r /\ recv[x].val \in Goroutines}

Returned(s) == respond[s].pc = "done"
ClosedErrs(r) == {ErrWasClosed(req[r].downstreamPipelineName),
                  ErrIsClosed(req[r].downstreamPipelineName)}

\* C1: on every request at most one response is ever delivered to a
\* receiver, whatever Respond, Close and receive steps have happened.
\* Respond keeps no record of an earlier delivery, so this is violated.
C1_AtMostOneDelivered ==
    \A r \in Requests : Cardinality(Delivered(r)) <= 1

\* C2: a Respond call made after some Close() of its request has returned
\* has returned a "closed" error at once (it is never left in its select),
\* its response was taken by no receiver, and nothing aborted the program,
\* whatever the state of its cancel signal.
C2_RespondAfterCloseFails ==
    \A s \in Goroutines : respond[s].afterClose =>
        /\ Returned(s)
        /\ respond[s].err \in ClosedErrs(respond[s].r)
        /\ respond[s].err # NilErr
        /\ Received(s) = {}
        /\ ~fault

C2_Witness ==
    \E s, t \in Goroutines :
        /\ respond[s].afterClose /\ Returned(s) /\ cancel[s]
        /\ respond[t].afterClose /\ Returned(t) /\ ~cancel[t]

\* C3: a Respond racing with Close always ends with a "request closed"
\* error: once Close has closed the channel, a Respond in its select holds
\* that closed channel (so its send faults and is recovered) and is not
\* parked on a send that can never proceed. Violated: Close can set the
\* field to nil between the nil check and the select's read of the field.
C3_RacingRespondGetsClosedError ==
    \A s \in Goroutines :
        (respond[s].pc = "select" /\ chans[NewChan(respond[s].r)].closed)
            => respond[s].ch # NIL

\* C4: Close calls on one request never fault; exactly one of them closes
\* the channel, and once any of them has returned the request is in the
\* state one Close leaves: field nil, channel closed.
C4_CloseIdempotent ==
    /\ ~fault
    /\ \A r \in Requests :
          /\ Cardinality({c \in Goroutines : close[c].r = r /\ close[c].did}) <= 1
          /\ CloseReturned(r) =>
                /\ Cardinality({c \in Goroutines : close[c].r = r /\ close[c].did}) = 1
                /\ req[r].responseChan = NIL
                /\ chans[NewChan(r)].closed

C4_Witness ==
    \E r \in Requests : \E c, d \in Goroutines :
        /\ c # d
        /\ close[c].pc = "done" /\ close[c].r = r
        /\ close[d].pc = "done" /\ close[d].r = r

\* C5: the channel never holds a queued response, and a Respond that
\* returned nil has had its response taken by a receiver.
C5_NilOnlyAfterReceive ==
    /\ \A ch \in DOMAIN chans : chans[ch].buf = <<>>
    /\ \A s \in Goroutines :
          (Returned(s) /\ respond[s].err = NilErr) => Received(s) # {}

C5_Witness ==
    \E s \in Goroutines : Returned(s) /\ respond[s].err = NilErr /\ Received(s) # {}

\* C6: a Respond in its select whose cancel signal has fired eventually
\* returns; and a return from the select that is due neither to a receiver
\* taking the response nor to the channel being closed is due to the cancel
\* signal and carries the cancellation error.
C6_CancelUnblocksRespond ==
    /\ \A s \in Goroutines :
          (respond[s].pc = "select" /\ cancel[s]) ~> Returned(s)
    /\ [][\A s \in Goroutines :
            ( /\ respond[s].pc = "select"
              /\ respond'[s].pc = "done"
              /\ respond'[s].err # NilErr
              /\ ~(respond[s].ch # NIL /\ chans[respond[s].ch].closed) )
            => (cancel[s] /\ respond'[s].err = ErrCancelled)]_vars

C6_Witness ==
    \E s \in Goroutines :
        Returned(s) /\ respond[s].err = ErrCancelled /\ req[respond[s].r].responseChan # NIL

\* C7: a response taken from the channel of request r was passed to a
\* Respond call on r.
C7_NoCrossDelivery ==
    \A x \in Goroutines :
        (recv[x].pc = "done" /\ recv[x].val \in Goroutines)
            => respond[recv[x].val].r = recv[x].r

C7_Witness ==
    \E x, y \in Goroutines :
        /\ recv[x].pc = "done" /\ recv[x].val \in Goroutines
        /\ recv[y].pc = "done" /\ recv[y].val \in Goroutines
        /\ recv[x].r # recv[y].r

\* C8: a Respond that returned an error (cancelled or closed) has had its
\* response taken by no receiver, in this and every later state; one that
\* returned nil has had it taken by exactly one receiver.
C8_ErrorMeansNeverDelivered ==
    \A s \in Goroutines : Returned(s) =>
        /\ respond[s].err # NilErr => Received(s) = {}
        /\ respond[s].err = NilErr => Cardinality(Received(s)) = 1

C8_Witness ==
    \E s, x \in Goroutines :
        /\ Returned(s) /\ respond[s].err = ErrCancelled
        /\ recv[x].pc = "recv" /\ recv[x].r = respond[s].r /\ recv[x].ch # NIL

\* C9: a receiver holding the channel it got from Response() before the
\* field was cleared finishes its receive once a Close of that request is
\* under way; and a receive that completes while no Respond is in its
\* select on that channel observes the channel closed, with no value.
C9_CloseUnblocksReceiver ==
    /\ \A x \in Goroutines :
          ( /\ recv[x].pc = "recv"
            /\ recv[x].ch # NIL
            /\ \E c \in Goroutines : close[c].pc # "idle" /\ close[c].r = recv[x].r )
          ~> (recv[x].pc = "done")
    /\ [][\A x \in Goroutines :
            ( /\ recv[x].pc = "recv"
              /\ recv'[x].pc = "done"
              /\ ~\E s \in Goroutines :
                    respond[s].pc = "select" /\ respond[s].ch = recv[x].ch )
            => (recv'[x].val = ClosedVal /\ chans[recv[x].ch].closed)]_vars

C9_Witness ==
    \E x \in Goroutines : recv[x].pc = "done" /\ recv[x].val = ClosedVal

\* C10: no step changes a request's upstream name, downstream name or data;
\* the response channel field only ever changes from the channel made by
\* the constructor to nil, and a closed channel stays closed.
C10_IdentityImmutable ==
    [][\A r \in Requests :
         /\ UpstreamPipelineName(req'[r]) = UpstreamPipelineName(req[r])
         /\ DownstreamPipelineName(req'[r]) = DownstreamPipelineName(req[r])
         /\ Data(req'[r]) = Data(req[r])
         /\ req'[r].responseChan # req[r].responseChan =>
               (req[r].responseChan = NewChan(r) /\ req'[r].responseChan = NIL)
         /\ chans[NewChan(r)].closed => chans'[NewChan(r)].closed]_vars

C10_Witness ==
    \E r \in Requests : \E s \in Goroutines :
        /\ req[r].responseChan = NIL
        /\ CloseReturned(r)
        /\ respond[s].r = r /\ Returned(s) /\ respond[s].err = NilErr

====
